---- MODULE Spec2Model ----
(***************************************************************************)
(* Model of mastodon_scraper.py: the Mastodon class with its epoch runs    *)
(* (run_epochs, __run_epoch, search_list_of_queries, search_one_query),    *)
(* the checkpoint directory data/posts/epochs, and combine_epochs.         *)
(*                                                                         *)
(* Strings are sequences of one-character strings, so that str(), int(),   *)
(* the string sort and the file-name regex are computed, not assumed.      *)
(* Post ids and cursors are near 10^17 and do not fit a TLC integer: a     *)
(* number is a record [a, b, fl] standing for a * 10^15 + b, fl telling    *)
(* whether Python holds it as a float (IEEE double) or as an int.          *)
(*                                                                         *)
(* Specifications: Spec (epoch runs of one process), SpecFair (the same on *)
(* a new directory, with the program's progress), SpecConc (two processes  *)
(* on one directory), SpecSearch (searches called by the host script),     *)
(* SpecStart (the start cursor alone), SpecCombine and SpecUnusable        *)
(* (combine_epochs on given directories), SpecArchive (combine_epochs      *)
(* between epoch runs).                                                    *)
(***************************************************************************)
EXTENDS Integers, Sequences, FiniteSets, TLC

\* ------------------------------------------------------------------ bounds
\* Most epoch runs (calls of __run_epoch) started in one behaviour.
MaxRuns == 2
\* Most posts the server holds for one hashtag inside a queried range.
MaxResults == 1
\* Most rows of a checkpoint file handed to combine_epochs.
MaxRows == 2
\* Largest epoch number whose start cursor is computed on its own.
MaxEpoch == 150
\* Most API calls after which the host script still starts a search itself.
MaxSearches == 2
\* Most epoch runs made between combine_epochs calls.
MaxArchiveRuns == 1

\* ------------------------------------------------------------- characters
Digits == <<"0", "1", "2", "3", "4", "5", "6", "7", "8", "9">>

DigitChars == {Digits[i] : i \in 1..10}

\* ord(c) for the characters that reach the string sort (decimal digits).
Ord(c) == 47 + (CHOOSE i \in 1..10 : Digits[i] = c)

\* str.isdigit(): non-empty and every character a digit.
IsDigit(s) == s # <<>> /\ \A i \in 1..Len(s) : s[i] \in DigitChars

\* Python's < on strings: by character, a proper prefix is smaller.
RECURSIVE StrLess(_, _)
StrLess(s, t) ==
  IF s = <<>> THEN t # <<>>
  ELSE IF t = <<>> THEN FALSE
  ELSE IF Head(s) = Head(t) THEN StrLess(Tail(s), Tail(t))
  ELSE Ord(Head(s)) < Ord(Head(t))

\* list.sort() of a list of distinct strings, as the ascending sequence.
RECURSIVE SortNames(_)
SortNames(S) ==
  IF S = {} THEN <<>>
  ELSE LET lo == CHOOSE x \in S : \A y \in S \ {x} : StrLess(x, y)
       IN <<lo>> \o SortNames(S \ {lo})

\* int(s) for a string of decimal digits.
RECURSIVE IntOf(_)
IntOf(s) ==
  IF s = <<>> THEN 0
  ELSE IntOf(SubSeq(s, 1, Len(s) - 1)) * 10 + (Ord(s[Len(s)]) - 48)

\* str(n) for an int n >= 0.
RECURSIVE StrOf(_)
StrOf(n) ==
  IF n < 10 THEN <<Digits[n + 1]>>
  ELSE StrOf(n \div 10) \o <<Digits[(n % 10) + 1]>>

\* str.strip() removes leading and trailing whitespace.
Whitespace == {" ", "\t", "\n"}

RECURSIVE LStrip(_)
LStrip(s) == IF s # <<>> /\ Head(s) \in Whitespace THEN LStrip(Tail(s)) ELSE s

RECURSIVE RStrip(_)
RStrip(s) ==
  IF s # <<>> /\ s[Len(s)] \in Whitespace THEN RStrip(SubSeq(s, 1, Len(s) - 1)) ELSE s

Strip(s) == RStrip(LStrip(s))

\* search_query.replace(' ', '_')
Replace(s) == [i \in 1..Len(s) |-> IF s[i] = " " THEN "_" ELSE s[i]]

\* ---------------------------------------------------------------- numbers
Num(a, b) == [a |-> a, b |-> b, fl |-> FALSE]

Flt(a, b) == [a |-> a, b |-> b, fl |-> TRUE]

\* Numeric order of two numbers (int or float), |b| far below 10^15.
NumLess(x, y) == x.a < y.a \/ (x.a = y.a /\ x.b < y.b)

\* Spacing of IEEE doubles around a * 10^15 (2^53 = 9.007e15, 2^54 = 1.801e16,
\* 2^55 = 3.603e16, 2^56 = 7.206e16, 2^57 = 1.441e17, 2^58 = 2.882e17).
Ulp(a) ==
  IF a <= 9 THEN 1
  ELSE IF a <= 18 THEN 2
  ELSE IF a <= 36 THEN 4
  ELSE IF a <= 72 THEN 8
  ELSE IF a <= 144 THEN 16
  ELSE 32

\* Round an exact value to the nearest double, ties to the even mantissa.
\* a * 10^15 is a multiple of 2^15, so only b is rounded, and the mantissa
\* of a * 10^15 + q * u has the parity of q.
RoundFloat(a, b) ==
  LET u == Ulp(a)
      q == b \div u
      r == b - q * u
      up == 2 * r > u \/ (2 * r = u /\ q % 2 = 1)
  IN Flt(a, IF up THEN (q + 1) * u ELSE q * u)

\* x + k for a small int k: exact on an int, rounded on a float.
AddInt(x, k) == IF x.fl THEN RoundFloat(x.a, x.b + k) ELSE Num(x.a, x.b + k)

\* -------------------------------------------------------------- file paths
EpochsDir ==
  <<"d", "a", "t", "a", "/", "p", "o", "s", "t", "s", "/",
    "e", "p", "o", "c", "h", "s">>

PostsDir == <<"d", "a", "t", "a", "/", "p", "o", "s", "t", "s">>

CsvExt == <<".", "c", "s", "v">>

Foo == <<"f", "o", "o">>

CombinedName ==
  <<"c", "o", "m", "b", "i", "n", "e", "d", "_", "e", "p", "o", "c", "h", "s">>

\* os.path.join(path, filename + '.csv')
CsvPath(path, filename) == path \o <<"/">> \o filename \o CsvExt

EndsWith(s, suf) ==
  Len(s) >= Len(suf) /\ SubSeq(s, Len(s) - Len(suf) + 1, Len(s)) = suf

IsSep(c) == c \in {"/", "\\"}

\* re.search(r'([^/\\]+)\.csv$', filepath): the longest run of non-separator
\* characters that ends right before a final ".csv"; None (here <<>>, which is
\* no match since the group is non-empty) when there is none.
extract_csv_name(filepath) ==
  IF ~EndsWith(filepath, CsvExt) THEN <<>>
  ELSE LET e == Len(filepath) - Len(CsvExt)
           seps == {i \in 1..e : IsSep(filepath[i])}
           from == IF seps = {} THEN 1
                   ELSE 1 + CHOOSE i \in seps : \A j \in seps : j <= i
       IN SubSeq(filepath, from, e)

\* glob.glob(os.path.join(directory, "*.csv")) as the set of matching paths
\* of the file system fs; the order of the list is the caller's concern.
Glob(fs, directory) ==
  {p \in DOMAIN fs :
     /\ EndsWith(p, CsvExt)
     /\ Len(p) > Len(directory) + 1 + Len(CsvExt)
     /\ SubSeq(p, 1, Len(directory) + 1) = directory \o <<"/">>
     /\ \A i \in (Len(directory) + 2)..Len(p) : ~IsSep(p[i])}

\* ------------------------------------------------------------ data frames
\* A frame is the sequence of its rows. A row keeps the post's id, one tag v
\* standing for all its other fields, and na: every cell of the row is NaN.
Row(id, v) == [id |-> id, v |-> v, na |-> FALSE]

NARow == [id |-> Num(0, 0), v |-> 0, na |-> TRUE]

\* df.empty
IsEmpty(df) == df = <<>>

\* An all-null test that never holds.
AllNANever(df) == FALSE

\* df.isna().all().all()
AllNA(df) == \A i \in 1..Len(df) : df[i].na

\* A filter that lets every frame through.
UsableUnfiltered(df) == TRUE

\* not df.empty and not df.isna().all().all()
Usable(df) == ~IsEmpty(df) /\ ~AllNA(df)

\* A concat that puts later frames first.
RECURSIVE ConcatReversed(_)
ConcatReversed(frames) ==
  IF frames = <<>> THEN <<>> ELSE ConcatReversed(Tail(frames)) \o Head(frames)

\* pd.concat(frames, ignore_index=True)
RECURSIVE Concat(_)
Concat(frames) ==
  IF frames = <<>> THEN <<>> ELSE Head(frames) \o Concat(Tail(frames))

\* The value drop_duplicates and sort_values see in the id column.
IdCell(row) == [id |-> row.id, na |-> row.na]

\* A drop_duplicates that drops nothing.
DropDuplicatesNone(df) == df

\* drop_duplicates with keep='last'.
DropDuplicatesLast(df) ==
  LET keep(i) == \A j \in (i + 1)..Len(df) : IdCell(df[j]) # IdCell(df[i])
      F[i \in 0..Len(df)] ==
        IF i = 0 THEN <<>>
        ELSE IF keep(i) THEN Append(F[i - 1], df[i]) ELSE F[i - 1]
  IN F[Len(df)]

\* df.drop_duplicates(subset=id_column): keep='first'.
DropDuplicates(df) ==
  LET keep(i) == \A j \in 1..(i - 1) : IdCell(df[j]) # IdCell(df[i])
      F[i \in 0..Len(df)] ==
        IF i = 0 THEN <<>>
        ELSE IF keep(i) THEN Append(F[i - 1], df[i]) ELSE F[i - 1]
  IN F[Len(df)]

\* Order of the id column under sort_values: ascending, NaN last.
CellLess(r, s) == ~r.na /\ (s.na \/ NumLess(r.id, s.id))

\* df.sort_values(by=id_column).reset_index(drop=True)
RECURSIVE SortValues(_)
SortValues(df) ==
  IF df = <<>> THEN <<>>
  ELSE LET lo == CHOOSE i \in 1..Len(df) :
                   \A j \in 1..Len(df) :
                     ~CellLess(df[j], df[i]) /\ (IdCell(df[j]) = IdCell(df[i]) => i <= j)
           rest == [k \in 1..(Len(df) - 1) |-> IF k < lo THEN df[k] ELSE df[k + 1]]
       IN <<df[lo]>> \o SortValues(rest)

\* What stands for a file of zero bytes, which holds no frame: pd.read_csv
\* raises EmptyDataError on it.
ZeroBytes == <<[id |-> Num(0, 0), v |-> -1, na |-> TRUE]>>

\* The ids of a frame's rows.
Ids(df) == {df[i].id : i \in {j \in 1..Len(df) : ~df[j].na}}

\* ------------------------------------------------------------- the server
\* Posts the server may hold under the searched hashtags: a post whose id is
\* exactly the start cursor of epoch 1, and a recent post.
ServerPosts == {Row(Num(100, 0), 1), Row(Num(120, 3), 1)}

\* An optional argument: <<>> is None, <<x>> is the value x.
None == <<>>

Some(x) == <<x>>

\* Every list of posts the server could send.
ApiAnswers == UNION {[1..k -> ServerPosts] : k \in 0..MaxResults}

\* api.timeline_hashtag(query, limit, min_id, max_id): any list of distinct
\* posts with min_id < id < max_id, at most limit of them.
TimelineHashtag(limit, min_id, max_id) ==
  LET cap == IF limit < MaxResults THEN limit ELSE MaxResults
      inside(r) == /\ (min_id # None => NumLess(min_id[1], r.id))
                   /\ (max_id # None => NumLess(r.id, max_id[1]))
  IN {s \in UNION {[1..k -> ServerPosts] : k \in 0..cap} :
        /\ \A i \in 1..Len(s) : inside(s[i])
        /\ \A i, j \in 1..Len(s) : i # j => s[i].id # s[j].id}

\* ----------------------------------------------------------- pure helpers
\* A clamp that leaves out the upper end.
ClampLowerOnly(n) == IF n > 0 THEN n ELSE 0

\* max(0, min(num_posts_per_query, 40))
Clamp(n) ==
  LET m == IF n < 40 THEN n ELSE 40
  IN IF m > 0 THEN m ELSE 0

\* A start that leaves out the "- 1" of the epoch.
StartWithoutOffset(epoch) ==
  IF epoch = 0 THEN Num(0, 0)
  ELSE LET base == Flt(100, 0)
           prod == RoundFloat(epoch, 0)
       IN RoundFloat(base.a + prod.a, base.b + prod.b)

\* __get_start_from_epoch: 0 (an int) for epoch 0, else the float
\* 1e17 + (epoch - 1) * 1e15; the product and the sum are rounded to doubles.
get_start_from_epoch(epoch) ==
  IF epoch = 0 THEN Num(0, 0)
  ELSE LET base == Flt(100, 0)
           prod == RoundFloat(epoch - 1, 0)
       IN RoundFloat(base.a + prod.a, base.b + prod.b)

\* The bounds search_one_query hands to the API: start_id - 1 and end_id + 1.
AdjustStart(start_id) ==
  IF start_id # None THEN Some(AddInt(start_id[1], -1)) ELSE None

\* An upper bound that takes None for 0.
AdjustEndOfNone(end_id) ==
  Some(AddInt(IF end_id # None THEN end_id[1] ELSE Num(0, 0), 1))

AdjustEnd(end_id) ==
  IF end_id # None THEN Some(AddInt(end_id[1], 1)) ELSE None

\* The numeric csv names of __run_epoch, sorted as Python sorts strings.
SortedCsvNames(fs) ==
  SortNames({n \in {extract_csv_name(p) : p \in Glob(fs, EpochsDir)} : IsDigit(n)})

\* A resolution that counts epochs from 1.
ResolveEpochFromOne(fs) ==
  LET csv_names == SortedCsvNames(fs)
  IN IF csv_names # <<>> THEN IntOf(csv_names[Len(csv_names)]) + 1 ELSE 1

\* The epoch __run_epoch starts from.
ResolveEpoch(fs) ==
  LET csv_names == SortedCsvNames(fs)
  IN IF csv_names # <<>> THEN IntOf(csv_names[Len(csv_names)]) + 1 ELSE 0

\* __save_csv(df, path, filename): the file system after the write.
save_csv(fs, df, path, filename) ==
  LET csv_file_path == CsvPath(path, filename)
  IN [p \in DOMAIN fs \cup {csv_file_path} |->
        IF p = csv_file_path THEN df ELSE fs[p]]

\* All orders in which glob may list the files of a set.
RECURSIVE Orders(_)
Orders(S) ==
  IF S = {} THEN {<<>>}
  ELSE UNION {{<<x>> \o t : t \in Orders(S \ {x})} : x \in S}

\* ------------------------------------------------------------------ state
VARIABLES
  fs,                \* the file system: path -> frame read from that CSV file
  query_list,        \* self.query_list
  epoch_mode,        \* self.epoch_mode
  epoch_num,         \* self.epoch_num
  pc,                \* where the host script is: idle, loop (run_epochs), search
                     \* (search_list_of_queries under __run_epoch), search_host
                     \* (search_list_of_queries called by the host script)
  i_left,            \* iterations run_epochs' for-loop still has to make
  nppq,              \* num_posts_per_query as given by the host script
  start_id,          \* start_id of __run_epoch
  id_range,          \* start_id and end_id of search_list_of_queries
  qi,                \* position of search_list_of_queries in query_list
  valid_dataframes,  \* valid_dataframes of search_list_of_queries
  ret,               \* outcome of the last combine_epochs call
  peer,              \* a second process running the epoch code on the same directory
  results,           \* history: what each search of the current epoch returned
  log,               \* history: the epochs run so far, with what became of them
  call,              \* history: the file system and arguments at the last run_epochs call
  api_call,          \* history: the last timeline_hashtag call and how many were made
  qfile              \* history: whether the last get_list_of_queries found its file

vars ==
  <<fs, query_list, epoch_mode, epoch_num, pc, i_left, nppq, start_id, id_range,
    qi, valid_dataframes, ret, peer, results, log, call, api_call, qfile>>

\* ----------------------------------------------------------------- inputs
\* A checkpoint left by an earlier run of epoch n: one post inside its range.
OldCheckpoint(n) == <<Row(Num(IF n = 0 THEN 0 ELSE 99 + n, 2), 1)>>

\* Epoch numbers of the checkpoints found at start (some were removed since).
InitStemSets == {{}, {9}, {1, 3}}

\* What a foreign file foo.csv of the directory may hold.
FooFrames == {<<NARow>>, <<Row(Num(0, 7), 2), Row(Num(50, 1), 1)>>}

\* Lines of a query list file: "ai\n" and, last and unterminated, "o s".
LineAi == <<"a", "i", "\n">>

LineOs == <<"o", " ", "s">>

\* Query list files, as the sequences of their lines.
QueryFiles == {<<>>, <<LineAi>>, <<LineAi, LineOs>>}

\* num_posts_per_query arguments: below the range, the default, above it.
PostCaps == {-5, 20, 100}

\* Queries, start_id and end_id arguments of the searches the host script
\* starts itself.
HostQueries == {Strip(LineAi), LineOs}

StartIds == {None, Some(Num(100, 0))}

EndIds == {None, Some(Num(120, 3))}

\* The checkpoint files of the epochs S, as earlier runs left them.
OldCheckpoints(S) ==
  [p \in {CsvPath(EpochsDir, StrOf(n)) : n \in S} |->
     OldCheckpoint(IntOf(extract_csv_name(p)))]

\* A directory with the foreign file foo.csv added (<<>>: no such file).
WithFoo(f, foo) == IF foo = <<>> THEN f ELSE save_csv(f, foo, EpochsDir, Foo)

\* No combine_epochs call yet. csv_files is the listing the call prints,
\* loaded the (file, frame) pairs it kept in dataframes, epochs the number of
\* epoch runs made before the call, prev that number for the call before it
\* when that one returned a table (-1 otherwise).
NoRet ==
  [kind |-> "none", table |-> <<>>, csv_files |-> <<>>, loaded |-> <<>>,
   epochs |-> 0, prev |-> -1]

NoCall == [fs |-> <<>>, count |-> 0, first |-> 1, searches |-> 0]

NoApiCall == [n |-> 0, query |-> <<>>, limit |-> 0, min_id |-> None, max_id |-> None]

\* The second process has not started.
NoPeer ==
  [pc |-> "off", query_list |-> <<>>, nppq |-> 20, epoch_num |-> 0,
   start_id |-> Num(0, 0), qi |-> 1, valid_dataframes |-> <<>>, results |-> <<>>]

\* The second process has loaded the query list "ai" and is about to run one
\* epoch with the default num_posts_per_query.
StartedPeer == [NoPeer EXCEPT !.pc = "start", !.query_list = <<Strip(LineAi)>>]

\* The Mastodon object after construction (the class attributes).
InitObject ==
  /\ query_list = <<>>
  /\ epoch_mode = FALSE
  /\ epoch_num = 0
  /\ pc = "idle"
  /\ i_left = 0
  /\ nppq = 20
  /\ start_id = Num(0, 0)
  /\ id_range = [start_id |-> None, end_id |-> None]
  /\ qi = 1
  /\ valid_dataframes = <<>>
  /\ ret = NoRet
  /\ results = <<>>
  /\ log = <<>>
  /\ call = NoCall
  /\ api_call = NoApiCall
  /\ qfile = "none"

Init ==
  /\ \E S \in InitStemSets, foo \in FooFrames \cup {<<>>} :
       fs = WithFoo(OldCheckpoints(S), foo)
  /\ InitObject
  /\ peer = NoPeer

\* Rows of the checkpoint files handed to combine_epochs: one post fetched in
\* two states of its other fields, and a second post.
CombineRows == {Row(Num(100, 1), 1), Row(Num(100, 1), 2), Row(Num(101, 4), 1)}

\* The frames an epoch can have written: one to MaxRows rows.
CheckpointFrames == UNION {[1..k -> CombineRows] : k \in 1..MaxRows}

\* A directory with checkpoint n holding df (<<>>: no such file).
WithCheckpoint(f, n, df) == IF df = <<>> THEN f ELSE save_csv(f, df, EpochsDir, StrOf(n))

\* combine_epochs is called on a directory holding up to two checkpoint files
\* (the second of one row) and possibly foo.csv.
InitCombine ==
  /\ \E d1 \in CheckpointFrames \cup {<<>>}, d2 \in [1..1 -> CombineRows] \cup {<<>>},
        foo \in FooFrames \cup {<<>>} :
       fs = WithFoo(WithCheckpoint(WithCheckpoint(<<>>, 1, d1), 2, d2), foo)
  /\ InitObject
  /\ peer = NoPeer

\* Files without usable data: a header and no row, rows of nulls only, no
\* byte at all.
UnusableFiles == {<<>>, <<NARow>>, <<NARow, NARow>>, ZeroBytes}

\* What a file of the directory may be: absent, unusable, or one row of data.
FileOptions == {None} \cup {Some(df) : df \in UnusableFiles \cup {<<Row(Num(100, 1), 1)>>}}

\* A directory with the file of that name added when there is one.
WithFile(f, filename, file) ==
  IF file = None THEN f ELSE save_csv(f, file[1], EpochsDir, filename)

\* combine_epochs is called on a directory whose files 1.csv, 2.csv and
\* foo.csv may each be absent, unusable or hold data.
InitUnusable ==
  /\ \E c1, c2, foo \in FileOptions :
       fs = WithFile(WithFile(WithFile(<<>>, StrOf(1), c1), StrOf(2), c2), Foo, foo)
  /\ InitObject
  /\ peer = NoPeer

\* ---------------------------------------------------------------- history
\* A result that is neither empty nor all null.
NonEmptyResult(df) == Len(df) > 0 /\ \E i \in 1..Len(df) : ~df[i].na

\* What the server answered in an epoch whose searches all returned: "some"
\* when a result was non-empty, "none" when every result was empty.
Answered(rs) ==
  IF \E i \in 1..Len(rs) : NonEmptyResult(rs[i]) THEN "some" ELSE "none"

\* The rows of the non-empty results among rs, in the order of rs.
RowsInOrder(rs) ==
  LET F[i \in 0..Len(rs)] ==
        IF i = 0 THEN <<>>
        ELSE IF NonEmptyResult(rs[i]) THEN F[i - 1] \o rs[i] ELSE F[i - 1]
  IN F[Len(rs)]

\* ---------------------------------------------------------------- actions
\* A load that does not notice the missing file.
LoadQueriesUnchecked(exists, lines) == [i \in 1..Len(lines) |-> Strip(lines[i])]

\* query_list of get_list_of_queries: the stripped lines of the file, or []
\* when open() raised FileNotFoundError.
LoadQueries(exists, lines) ==
  IF exists THEN [i \in 1..Len(lines) |-> Strip(lines[i])] ELSE <<>>

\* get_list_of_queries(query_list_filename).
get_list_of_queries ==
  /\ pc = "idle"
  /\ \E exists \in BOOLEAN, lines \in QueryFiles :
       /\ query_list' = LoadQueries(exists, lines)
       /\ qfile' = IF exists THEN "read" ELSE "missing"
  /\ UNCHANGED <<fs, epoch_mode, epoch_num, pc, i_left, nppq, start_id, id_range,
                 qi, valid_dataframes, ret, peer, results, log, call, api_call>>

\* run_epochs(num_epochs, num_posts_per_query): entry, up to the for-loop.
run_epochs ==
  /\ pc = "idle"
  /\ \E num_epochs \in 0..(MaxRuns - Len(log)), p \in PostCaps :
       /\ i_left' = num_epochs
       /\ nppq' = p
       /\ call' = [fs |-> fs, count |-> num_epochs, first |-> Len(log) + 1,
                   searches |-> api_call.n]
  /\ epoch_mode' = TRUE
  /\ pc' = "loop"
  /\ UNCHANGED <<fs, query_list, epoch_num, start_id, id_range, qi,
                 valid_dataframes, ret, peer, results, log, api_call, qfile>>

\* __run_epoch up to the first search: resolve the epoch from the file names,
\* compute its start, enter search_list_of_queries(num_posts_per_query,
\* start_id=start_id).
run_epoch ==
  /\ pc = "loop"
  /\ i_left > 0
  /\ i_left' = i_left - 1
  /\ epoch_num' = ResolveEpoch(fs)
  /\ start_id' = get_start_from_epoch(epoch_num')
  /\ id_range' = [start_id |-> Some(start_id'), end_id |-> None]
  /\ valid_dataframes' = <<>>
  /\ qi' = 1
  /\ results' = <<>>
  /\ log' = Append(log, [epoch |-> epoch_num', start |-> start_id',
                         outcome |-> "pending", rows |-> <<>>])
  /\ pc' = "search"
  /\ UNCHANGED <<fs, query_list, epoch_mode, nppq, ret, peer, call, api_call, qfile>>

\* The body of search_one_query(search_query, num_posts_per_query, start_id,
\* end_id) when the API answers df: clamp, move the bounds, call, and save the
\* per-query file unless in epoch mode.
SearchOneQuery(search_query, num_posts_per_query, s_id, e_id, df) ==
  LET limit == Clamp(num_posts_per_query)
      min_id == AdjustStart(s_id)
      max_id == AdjustEnd(e_id)
  IN /\ df \in TimelineHashtag(limit, min_id, max_id)
     /\ api_call' = [n |-> api_call.n + 1, query |-> search_query, limit |-> limit,
                     min_id |-> min_id, max_id |-> max_id]
     /\ fs' = IF epoch_mode THEN fs
              ELSE save_csv(fs, df, PostsDir, Replace(search_query))

\* One iteration of search_list_of_queries' loop: search_one_query with the
\* clamped num_posts_per_query and the call's start_id and end_id, then the
\* filter.
search_one_query ==
  /\ pc \in {"search", "search_host"}
  /\ qi <= Len(query_list)
  /\ \E df \in ApiAnswers :
       /\ SearchOneQuery(query_list[qi], Clamp(nppq), id_range.start_id,
                         id_range.end_id, df)
       /\ valid_dataframes' =
            IF Usable(df) THEN Append(valid_dataframes, df) ELSE valid_dataframes
       /\ results' = Append(results, df)
  /\ qi' = qi + 1
  /\ UNCHANGED <<query_list, epoch_mode, epoch_num, pc, i_left, nppq, start_id,
                 id_range, ret, peer, log, call, qfile>>

\* The API call raises (auth, network, rate limit): nothing catches it, the
\* exception leaves search_list_of_queries and, under it, run_epochs.
api_raises ==
  /\ pc \in {"search", "search_host"}
  /\ qi <= Len(query_list)
  /\ pc' = "idle"
  /\ log' = IF pc = "search" THEN [log EXCEPT ![Len(log)].outcome = "raised"] ELSE log
  /\ UNCHANGED <<fs, query_list, epoch_mode, epoch_num, i_left, nppq, start_id,
                 id_range, qi, valid_dataframes, ret, peer, results, call,
                 api_call, qfile>>

\* The end of search_list_of_queries: concatenate and save the checkpoint.
save_epoch ==
  /\ pc \in {"search", "search_host"}
  /\ qi > Len(query_list)
  /\ fs' = IF epoch_mode /\ valid_dataframes # <<>>
           THEN save_csv(fs, Concat(valid_dataframes), EpochsDir, StrOf(epoch_num))
           ELSE fs
  /\ log' = IF pc = "search"
            THEN [log EXCEPT ![Len(log)].outcome = Answered(results),
                             ![Len(log)].rows = RowsInOrder(results)]
            ELSE log
  /\ pc' = IF pc = "search" THEN "loop" ELSE "idle"
  /\ UNCHANGED <<query_list, epoch_mode, epoch_num, i_left, nppq, start_id,
                 id_range, qi, valid_dataframes, ret, peer, results, call,
                 api_call, qfile>>

\* run_epochs after the last iteration.
run_epochs_return ==
  /\ pc = "loop"
  /\ i_left = 0
  /\ epoch_mode' = FALSE
  /\ pc' = "idle"
  /\ UNCHANGED <<fs, query_list, epoch_num, i_left, nppq, start_id, id_range, qi,
                 valid_dataframes, ret, peer, results, log, call, api_call, qfile>>

\* start_id = self.__get_start_from_epoch(self.epoch_num), for any epoch number
\* the directory may have given.
start_of_epoch ==
  /\ pc = "idle"
  /\ \E epoch \in 0..MaxEpoch :
       /\ epoch_num' = epoch
       /\ start_id' = get_start_from_epoch(epoch)
  /\ UNCHANGED <<fs, query_list, epoch_mode, pc, i_left, nppq, id_range, qi,
                 valid_dataframes, ret, peer, results, log, call, api_call, qfile>>

\* search_one_query(search_query, num_posts_per_query, start_id, end_id) called
\* by the host script.
host_search_one_query ==
  /\ pc = "idle"
  /\ api_call.n < MaxSearches
  /\ \E q \in HostQueries, p \in PostCaps, s \in StartIds, e \in EndIds, df \in ApiAnswers :
       /\ SearchOneQuery(q, p, s, e, df)
       /\ nppq' = p
  /\ UNCHANGED <<query_list, epoch_mode, epoch_num, pc, i_left, start_id, id_range,
                 qi, valid_dataframes, ret, peer, results, log, call, qfile>>

\* search_list_of_queries(num_posts_per_query, start_id, end_id) called by the
\* host script: entry, up to the for-loop.
host_search_list_of_queries ==
  /\ pc = "idle"
  /\ api_call.n < MaxSearches
  /\ \E p \in PostCaps, s \in StartIds, e \in EndIds :
       /\ nppq' = p
       /\ id_range' = [start_id |-> s, end_id |-> e]
  /\ qi' = 1
  /\ valid_dataframes' = <<>>
  /\ results' = <<>>
  /\ pc' = "search_host"
  /\ UNCHANGED <<fs, query_list, epoch_mode, epoch_num, i_left, start_id, ret,
                 peer, log, call, api_call, qfile>>

\* The second process: __run_epoch up to the first search.
peer_run_epoch ==
  /\ peer.pc = "start"
  /\ peer' = [peer EXCEPT !.pc = "search",
                          !.epoch_num = ResolveEpoch(fs),
                          !.start_id = get_start_from_epoch(ResolveEpoch(fs))]
  /\ UNCHANGED <<fs, query_list, epoch_mode, epoch_num, pc, i_left, nppq, start_id,
                 id_range, qi, valid_dataframes, ret, results, log, call,
                 api_call, qfile>>

\* The second process: one iteration of search_list_of_queries' loop, in
\* epoch mode.
peer_search_one_query ==
  /\ peer.pc = "search"
  /\ peer.qi <= Len(peer.query_list)
  /\ \E df \in TimelineHashtag(Clamp(Clamp(peer.nppq)),
                               AdjustStart(Some(peer.start_id)), AdjustEnd(None)) :
       peer' = [peer EXCEPT !.qi = peer.qi + 1,
                            !.valid_dataframes =
                              IF Usable(df) THEN Append(peer.valid_dataframes, df)
                              ELSE peer.valid_dataframes,
                            !.results = Append(peer.results, df)]
  /\ UNCHANGED <<fs, query_list, epoch_mode, epoch_num, pc, i_left, nppq, start_id,
                 id_range, qi, valid_dataframes, ret, results, log, call,
                 api_call, qfile>>

\* The second process: the end of search_list_of_queries, and of its run.
peer_save_epoch ==
  /\ peer.pc = "search"
  /\ peer.qi > Len(peer.query_list)
  /\ fs' = IF peer.valid_dataframes # <<>>
           THEN save_csv(fs, Concat(peer.valid_dataframes), EpochsDir,
                         StrOf(peer.epoch_num))
           ELSE fs
  /\ peer' = [peer EXCEPT !.pc = "done"]
  /\ UNCHANGED <<query_list, epoch_mode, epoch_num, pc, i_left, nppq, start_id,
                 id_range, qi, valid_dataframes, ret, results, log, call,
                 api_call, qfile>>

\* A load loop that stops one file short.
LoadFramesSkipLast(f, csv_files) ==
  LET F[i \in 0..Len(csv_files)] ==
        IF i = 0 THEN <<>>
        ELSE IF Usable(f[csv_files[i]])
             THEN Append(F[i - 1], [file |-> csv_files[i], df |-> f[csv_files[i]]])
             ELSE F[i - 1]
  IN IF csv_files = <<>> THEN <<>> ELSE F[Len(csv_files) - 1]

\* The frames combine_epochs loads, in the order csv_files lists the files,
\* each with the file it was read from.
LoadFrames(f, csv_files) ==
  LET F[i \in 0..Len(csv_files)] ==
        IF i = 0 THEN <<>>
        ELSE IF Usable(f[csv_files[i]])
             THEN Append(F[i - 1], [file |-> csv_files[i], df |-> f[csv_files[i]]])
             ELSE F[i - 1]
  IN F[Len(csv_files)]

\* A combine that leaves out the sort.
CombineUnsorted(dataframes) == DropDuplicates(Concat(dataframes))

\* combined_df of combine_epochs, from the frames it loaded.
Combine(dataframes) == SortValues(DropDuplicates(Concat(dataframes)))

\* An outcome that leaves out the check of the listing.
CombineOutcomeUnlisted(csv_files, dataframes) ==
  IF dataframes = <<>> THEN "ValueError" ELSE "returned"

\* How combine_epochs ends: one of its two raises, or the return.
CombineOutcome(csv_files, dataframes) ==
  IF csv_files = <<>> THEN "FileNotFoundError"
  ELSE IF dataframes = <<>> THEN "ValueError"
  ELSE "returned"

\* pd.read_csv raises on one of the listed files (EmptyDataError, a subclass
\* of ValueError that pandas raises for a file without columns).
ReadRaises(f, csv_files) == \E i \in 1..Len(csv_files) : f[csv_files[i]] = ZeroBytes

\* combine_epochs(): directory and id_column at their defaults.
combine_epochs ==
  /\ pc = "idle"
  /\ \E csv_files \in Orders(Glob(fs, EpochsDir)) :
       LET loaded == LoadFrames(fs, csv_files)
           dataframes == [k \in 1..Len(loaded) |-> loaded[k].df]
           combined_df == Combine(dataframes)
           kind == IF ReadRaises(fs, csv_files) THEN "EmptyDataError"
                   ELSE CombineOutcome(csv_files, dataframes)
           out(table) ==
             [kind |-> kind, table |-> table, csv_files |-> csv_files,
              loaded |-> loaded, epochs |-> Len(log),
              prev |-> IF ret.kind = "returned" THEN ret.epochs ELSE -1]
       IN IF kind = "returned"
          THEN /\ ret' = out(combined_df)
               /\ fs' = save_csv(fs, combined_df, EpochsDir, CombinedName)
          ELSE /\ ret' = out(<<>>)
               /\ fs' = fs
  /\ UNCHANGED <<query_list, epoch_mode, epoch_num, pc, i_left, nppq, start_id,
                 id_range, qi, valid_dataframes, peer, results, log, call,
                 api_call, qfile>>

Next ==
  \/ get_list_of_queries
  \/ run_epochs
  \/ run_epoch
  \/ search_one_query
  \/ api_raises
  \/ save_epoch
  \/ run_epochs_return

Spec == Init /\ [][Next]_vars

NextCombine == combine_epochs

SpecCombine == InitCombine /\ [][NextCombine]_vars

SpecUnusable == InitUnusable /\ [][NextCombine]_vars

\* The object after construction, the directory new.
InitNew == fs = <<>> /\ InitObject /\ peer = NoPeer

NextStart == start_of_epoch

SpecStart == InitNew /\ [][NextStart]_vars

\* The host script calls the searches itself, on a new directory.
NextSearch ==
  \/ get_list_of_queries
  \/ host_search_one_query
  \/ host_search_list_of_queries
  \/ search_one_query
  \/ api_raises
  \/ save_epoch

SpecSearch == InitNew /\ [][NextSearch]_vars

\* Two processes run epochs on the same new directory; their steps interleave
\* in any order, nothing in the code locks the directory.
InitConc == fs = <<>> /\ InitObject /\ peer = StartedPeer

NextConc ==
  \/ get_list_of_queries
  \/ run_epochs
  \/ run_epoch
  \/ search_one_query
  \/ api_raises
  \/ save_epoch
  \/ run_epochs_return
  \/ peer_run_epoch
  \/ peer_search_one_query
  \/ peer_save_epoch

SpecConc == InitConc /\ [][NextConc]_vars

\* A host script that loads its query list once.
NextFair ==
  \/ (qfile = "none" /\ get_list_of_queries)
  \/ run_epochs
  \/ run_epoch
  \/ search_one_query
  \/ api_raises
  \/ save_epoch
  \/ run_epochs_return

\* Epoch runs on a new directory, the program going on whenever it can: the
\* interpreter executes the next statement, and an API call that does not
\* raise returns.
SpecFair ==
  /\ InitNew
  /\ [][NextFair]_vars
  /\ WF_vars(run_epoch)
  /\ WF_vars(search_one_query)
  /\ WF_vars(save_epoch)
  /\ WF_vars(run_epochs_return)

\* A directory holding the checkpoint of epoch 1.
InitArchive == fs = OldCheckpoints({1}) /\ InitObject /\ peer = NoPeer

\* A host script that loads its query list once, runs up to MaxArchiveRuns
\* epochs and calls combine_epochs before, between and after them.
NextArchive ==
  \/ (qfile = "none" /\ get_list_of_queries)
  \/ (run_epochs /\ i_left' <= MaxArchiveRuns - Len(log))
  \/ run_epoch
  \/ search_one_query
  \/ api_raises
  \/ save_epoch
  \/ run_epochs_return
  \/ combine_epochs

SpecArchive == InitArchive /\ [][NextArchive]_vars

TypeOK ==
  /\ pc \in {"idle", "loop", "search", "search_host"}
  /\ epoch_mode \in BOOLEAN
  /\ epoch_num \in Nat
  /\ i_left \in 0..MaxRuns
  /\ Len(log) <= MaxRuns
  /\ api_call.n \in Nat
  /\ api_call.limit \in 0..40
  /\ qfile \in {"none", "read", "missing"}
  /\ peer.pc \in {"off", "start", "search", "done"}

\* ----------------------------------------------------------------- claims
\* The paths of the checkpoint files of a file system: the CSV files of the
\* epoch directory whose stem is a non-negative integer.
CheckpointPaths(f) == {p \in Glob(f, EpochsDir) : IsDigit(extract_csv_name(p))}

\* Their epoch numbers.
CheckpointNumbers(f) == {IntOf(extract_csv_name(p)) : p \in CheckpointPaths(f)}

Largest(S) == CHOOSE n \in S : \A m \in S : m <= n

\* The epochs of the last run_epochs call, as positions of log.
CallEpochs == call.first..(call.first + call.count - 1)

\* The last run_epochs call has returned and each of its epochs ended so.
CallEndedAll(outcome) ==
  /\ pc = "idle"
  /\ call.count > 0
  /\ Len(log) = call.first + call.count - 1
  /\ \A k \in CallEpochs : log[k].outcome = outcome

\* C1: when the directory holds a checkpoint file, the epoch an epoch run
\* resolves is the numerically largest checkpoint number plus one.
C1_ResolvesNumericMaxPlusOne ==
  (pc = "search" /\ CheckpointNumbers(fs) # {})
    => epoch_num = Largest(CheckpointNumbers(fs)) + 1

\* C2: no step changes or removes a checkpoint file that exists.
C2_CheckpointsImmutable ==
  [][\A p \in CheckpointPaths(fs) : p \in DOMAIN fs' /\ fs'[p] = fs[p]]_vars

\* C3: when run_epochs(count) returns and every one of its epochs had a
\* non-empty result, the new checkpoint files are exactly e, ..., e+count-1,
\* e being the epoch resolved when the call started.
C3_ConsecutiveNewCheckpoints ==
  CallEndedAll("some")
    => CheckpointNumbers(fs) \ CheckpointNumbers(call.fs)
         = {log[call.first].epoch + k : k \in 0..(call.count - 1)}

\* The path of the checkpoint file of epoch n.
CheckpointPath(n) == EpochsDir \o <<"/">> \o StrOf(n) \o CsvExt

\* C4: at the end of an epoch run, a checkpoint is written if and only if
\* some query's result was non-empty; it is the one file named after the
\* resolved epoch and holds the non-empty results' rows in query-list order;
\* otherwise the directory is unchanged.
C4_WritesIffNonEmptyResult ==
  [][(pc = "search" /\ pc' = "loop")
       => /\ Len(results) = Len(query_list)
          /\ IF \E i \in 1..Len(results) : NonEmptyResult(results[i])
             THEN /\ DOMAIN fs' = DOMAIN fs \cup {CheckpointPath(log[Len(log)].epoch)}
                  /\ fs'[CheckpointPath(log[Len(log)].epoch)] = RowsInOrder(results)
                  /\ \A p \in DOMAIN fs \ {CheckpointPath(log[Len(log)].epoch)} :
                       fs'[p] = fs[p]
             ELSE fs' = fs]_vars

\* An epoch run with two queries, both non-empty, has written its checkpoint.
C4_Witness ==
  /\ pc = "loop"
  /\ Len(results) = 2
  /\ NonEmptyResult(results[1]) /\ NonEmptyResult(results[2])
  /\ results[1] # results[2]
  /\ log[Len(log)].outcome = "some"
  /\ CheckpointPath(epoch_num) \in DOMAIN fs
  /\ fs[CheckpointPath(epoch_num)] = results[1] \o results[2]

\* C5: the epoch run that follows one whose queries all returned empty
\* results resolves the same epoch number and the same start cursor; and a
\* run_epochs call whose epochs were all empty leaves the directory as it
\* found it, every epoch of it having resolved the same number.
C5_EmptyEpochIsRerun ==
  /\ \A k \in 1..(Len(log) - 1) :
       log[k].outcome = "none"
         => log[k + 1].epoch = log[k].epoch /\ log[k + 1].start = log[k].start
  /\ CallEndedAll("none")
       => /\ fs = call.fs
          /\ \A k \in CallEpochs : log[k].epoch = log[call.first].epoch

\* A run_epochs call of two epochs over a non-empty query list, all of whose
\* results were empty, has returned.
C5_Witness ==
  /\ CallEndedAll("none")
  /\ call.count = 2
  /\ query_list # <<>>
  /\ Len(results) = Len(query_list)
  /\ log[call.first + 1].epoch = log[call.first].epoch

\* C6: two different checkpoint files hold no post id in common.
C6_EpochsDisjoint ==
  \A p, q \in CheckpointPaths(fs) :
    p # q => Ids(fs[p]) \cap Ids(fs[q]) = {}

\* The path of the combined archive.
CombinedPath == EpochsDir \o <<"/">> \o CombinedName \o CsvExt

\* The ids held by the files of the directory other than the archive itself
\* (under SpecCombine these files never change, and an archive written by an
\* earlier call holds only ids of theirs).
LoadedIds == UNION {Ids(fs[p]) : p \in Glob(fs, EpochsDir) \ {CombinedPath}}

\* C7: the table combine_epochs returns and writes has one row for each id of
\* the loaded files and no other, in strictly ascending order of id.
C7_OneRowPerIdAscending ==
  ret.kind = "returned"
    => /\ \A i \in 1..Len(ret.table) : ~ret.table[i].na
       /\ \A i, j \in 1..Len(ret.table) :
            i < j => NumLess(ret.table[i].id, ret.table[j].id)
       /\ Ids(ret.table) = LoadedIds
       /\ fs[CombinedPath] = ret.table

\* Two checkpoint files sharing an id, and foo.csv, were combined to four rows.
C7_Witness ==
  /\ ret.kind = "returned"
  /\ Len(ret.table) = 4
  /\ \E p, q \in CheckpointPaths(fs) : p # q /\ Ids(fs[p]) \cap Ids(fs[q]) # {}

\* C8 as claimed: the ids of the combined archive are those of the checkpoint
\* files (the files with an integer stem); no other file of the directory
\* adds a row.
C8_OnlyCheckpointsCombined ==
  ret.kind = "returned"
    => Ids(ret.table) = UNION {Ids(fs[p]) : p \in CheckpointPaths(fs)}

\* C8 as amended: a combine_epochs call that returns gives the ids of all the
\* CSV files the directory held when it was called, foo.csv and an earlier
\* combined_epochs.csv included.
C8_AllCsvFilesCombined ==
  [][ret'.kind = "returned"
       => Ids(ret'.table) = UNION {Ids(fs[p]) : p \in Glob(fs, EpochsDir)}]_vars

\* The archive holds ids that only foo.csv has.
C8_Witness ==
  /\ ret.kind = "returned"
  /\ CheckpointPaths(fs) # {}
  /\ CsvPath(EpochsDir, Foo) \in DOMAIN fs
  /\ Ids(fs[CsvPath(EpochsDir, Foo)]) # {}
  /\ Ids(fs[CsvPath(EpochsDir, Foo)]) \subseteq Ids(ret.table)
  /\ Ids(fs[CsvPath(EpochsDir, Foo)]) \cap UNION {Ids(fs[p]) : p \in CheckpointPaths(fs)} = {}

\* The position of x in the sequence s (0 when absent).
Pos(s, x) == IF \E i \in 1..Len(s) : s[i] = x
             THEN CHOOSE i \in 1..Len(s) : s[i] = x /\ \A j \in 1..(i - 1) : s[j] # x
             ELSE 0

\* The row kept for an id: its first row in the first loaded frame holding it.
FirstOccurrence(loaded, id) ==
  LET k == CHOOSE k \in 1..Len(loaded) :
             /\ id \in Ids(loaded[k].df)
             /\ \A m \in 1..(k - 1) : id \notin Ids(loaded[m].df)
      df == loaded[k].df
  IN df[CHOOSE i \in 1..Len(df) :
          df[i].id = id /\ \A j \in 1..(i - 1) : df[j].id # id]

\* C9: the loaded frames are the usable files in listing order, and the row
\* kept for each id is its first occurrence in that order, whatever the
\* other fields of the rows are.
C9_KeepsFirstOccurrence ==
  ret.kind = "returned"
    => /\ \A k \in 1..Len(ret.loaded) :
            /\ Pos(ret.csv_files, ret.loaded[k].file) > 0
            /\ ret.loaded[k].file # CombinedPath
                 => ret.loaded[k].df = fs[ret.loaded[k].file]
            /\ \A m \in 1..(k - 1) :
                 Pos(ret.csv_files, ret.loaded[m].file)
                   < Pos(ret.csv_files, ret.loaded[k].file)
       /\ \A i \in 1..Len(ret.csv_files) :
            (ret.csv_files[i] # CombinedPath /\ NonEmptyResult(fs[ret.csv_files[i]]))
              => \E k \in 1..Len(ret.loaded) : ret.loaded[k].file = ret.csv_files[i]
       /\ \A i \in 1..Len(ret.table) :
            ret.table[i] = FirstOccurrence(ret.loaded, ret.table[i].id)

\* Two loaded files hold the same id with different other fields, and the
\* row kept is the one of the file listed first.
C9_Witness ==
  /\ ret.kind = "returned"
  /\ \E k, m \in 1..Len(ret.loaded) :
       /\ k < m
       /\ Len(ret.loaded[k].df) = 1 /\ Len(ret.loaded[m].df) = 1
       /\ ret.loaded[k].df[1].id = ret.loaded[m].df[1].id
       /\ ret.loaded[k].df[1].v # ret.loaded[m].df[1].v
       /\ \A n \in 1..(k - 1) : ret.loaded[k].df[1].id \notin Ids(ret.loaded[n].df)
       /\ \E i \in 1..Len(ret.table) : ret.table[i] = ret.loaded[k].df[1]

\* C10 as claimed: a combine_epochs call on a directory without checkpoint
\* files (files with an integer stem) ends with FileNotFoundError and returns
\* no table.
C10_NoCheckpointsRaisesNotFound ==
  (ret.kind # "none" /\ CheckpointPaths(fs) = {})
    => ret.kind = "FileNotFoundError" /\ ret.table = <<>>

\* C10 as amended: a combine_epochs call on a directory without any CSV file
\* ends with FileNotFoundError, returns no table and writes nothing.
C10_NoCsvRaisesNotFound ==
  [][Glob(fs, EpochsDir) = {}
       => ret'.kind = "FileNotFoundError" /\ ret'.table = <<>> /\ fs' = fs]_vars

\* combine_epochs was called on an empty directory.
C10_Witness ==
  /\ ret.kind = "FileNotFoundError"
  /\ ret.csv_files = <<>>
  /\ DOMAIN fs = {}

\* The exception classes that are ValueError: the class itself and pandas'
\* EmptyDataError.
ValueErrors == {"ValueError", "EmptyDataError"}

\* C11: a combine_epochs call on a directory that has CSV files, none of
\* which holds a row with a value, ends with a ValueError, which is not the
\* error of the empty directory, returns no table and writes no file.
C11_NoUsableDataRaisesValueError ==
  [][(Glob(fs, EpochsDir) # {} /\ \A p \in Glob(fs, EpochsDir) : ~NonEmptyResult(fs[p]))
       => /\ ret'.kind \in ValueErrors
          /\ ret'.kind # "FileNotFoundError"
          /\ ret'.table = <<>>
          /\ fs' = fs]_vars

\* combine_epochs was called on a directory of a header-only file and an
\* all-null file, and raised the ValueError of its own.
C11_Witness ==
  /\ ret.kind = "ValueError"
  /\ Len(ret.csv_files) >= 2
  /\ \E p, q \in Glob(fs, EpochsDir) : fs[p] = <<>> /\ fs[q] = <<NARow>>
  /\ \A p \in Glob(fs, EpochsDir) : ~NonEmptyResult(fs[p])
  /\ CombinedPath \notin DOMAIN fs

\* C12: the start cursor of epoch 0 is 0 and that of an epoch n >= 1 is
\* 10^17 + (n - 1) * 10^15, which is more than the start cursor of epoch n - 1.
C12_StartOfEpoch ==
  /\ epoch_num = 0 => (start_id.a = 0 /\ start_id.b = 0)
  /\ epoch_num >= 1
       => /\ start_id.a = 100 + (epoch_num - 1)
          /\ start_id.b = 0
          /\ NumLess(get_start_from_epoch(epoch_num - 1), start_id)

\* The start cursor of epoch 2 was computed: 101000000000000000.
C12_Witness == epoch_num = 2 /\ start_id.a = 101 /\ start_id.b = 0

\* C13: the lower bound handed to the API in a search of an epoch run is the
\* epoch's start cursor minus one exactly, hence below the cursor, and no
\* upper bound is handed over.
C13_LowerBoundIsStartMinusOne ==
  (pc = "search" /\ results # <<>>)
    => /\ api_call.min_id # None
       /\ api_call.min_id[1].a = log[Len(log)].start.a
       /\ api_call.min_id[1].b = log[Len(log)].start.b - 1
       /\ NumLess(api_call.min_id[1], log[Len(log)].start)
       /\ api_call.max_id = None

\* max(0, min(p, 40)) as the claim gives it.
ExpectedLimit(p) == IF p > 40 THEN 40 ELSE IF p < 0 THEN 0 ELSE p

\* C14: the limit of every API call lies in 0..40 and is max(0, min(p, 40)),
\* p being the num_posts_per_query the host script gave to search_one_query,
\* search_list_of_queries or run_epochs.
C14_LimitClamped ==
  [][api_call'.n # api_call.n
       => /\ api_call'.limit \in 0..40
          /\ api_call'.limit = ExpectedLimit(nppq')]_vars

\* A search_list_of_queries call of the host script with num_posts_per_query
\* 100 has made an API call with limit 40.
C14_Witness ==
  /\ pc = "search_host"
  /\ nppq = 100
  /\ api_call.n > 0
  /\ api_call.limit = 40

\* C15: an epoch run on a directory without a checkpoint file (no file at
\* all, or only files whose stem is not a number) resolves epoch 0, with start
\* cursor 0, and goes on to its searches.
C15_NoCheckpointResolvesZero ==
  (pc = "search" /\ CheckpointNumbers(fs) = {})
    => /\ epoch_num = 0
       /\ log[Len(log)].epoch = 0
       /\ log[Len(log)].start = Num(0, 0)

\* An epoch run on a directory holding foo.csv alone has resolved epoch 0.
C15_Witness ==
  /\ pc = "search"
  /\ Glob(fs, EpochsDir) = {CsvPath(EpochsDir, Foo)}
  /\ epoch_num = 0

\* C16: a get_list_of_queries call whose file is missing leaves the query
\* list empty, whatever it held; and while the list comes from such a call, a
\* run_epochs call makes no API call and writes no file.
C16_MissingQueryFileGivesNoSearch ==
  [][/\ qfile' = "missing" => query_list' = <<>>
     /\ (qfile = "missing" /\ pc # "idle") => (fs' = fs /\ api_call' = api_call)]_vars

\* After an epoch run that searched, the query list was loaded from a missing
\* file and a run_epochs call of one epoch has returned without a search.
C16_Witness ==
  /\ pc = "idle"
  /\ qfile = "missing"
  /\ call.count = 1 /\ call.first = 2 /\ Len(log) = 2
  /\ call.searches > 0
  /\ api_call.n = call.searches
  /\ log[2].outcome = "none"
  /\ fs = call.fs

\* C17: every completed epoch run with a non-empty result has its rows in the
\* checkpoint file of its epoch; claimed to hold for a single process and to
\* fail for two.
C17_EveryRunKeepsResults ==
  /\ \A k \in 1..Len(log) :
       log[k].outcome = "some"
         => /\ CheckpointPath(log[k].epoch) \in DOMAIN fs
            /\ fs[CheckpointPath(log[k].epoch)] = log[k].rows
  /\ (peer.pc = "done" /\ Answered(peer.results) = "some")
       => /\ CheckpointPath(peer.epoch_num) \in DOMAIN fs
          /\ fs[CheckpointPath(peer.epoch_num)] = RowsInOrder(peer.results)

\* C17, the interleaving denied: no state has both processes done with the
\* same resolved epoch and different non-empty results, the file of that
\* epoch holding those of the second process alone. SpecConc violates it.
C17_NoLostUpdate ==
  ~(/\ peer.pc = "done"
    /\ Len(log) = 1
    /\ log[1].outcome = "some"
    /\ log[1].epoch = peer.epoch_num
    /\ Answered(peer.results) = "some"
    /\ log[1].rows # RowsInOrder(peer.results)
    /\ fs[CheckpointPath(peer.epoch_num)] = RowsInOrder(peer.results))

\* What C18 says of one step of an epoch run.
C18_Step ==
  /\ (pc = "search" /\ api_call'.n # api_call.n)
       => /\ api_call'.n = api_call.n + 1
          /\ Len(results) < Len(query_list)
          /\ api_call'.query = query_list[Len(results) + 1]
          /\ Len(results') = Len(results) + 1
          /\ Len(results) >= 1 => api_call'.min_id = api_call.min_id
          /\ api_call'.max_id = None
          /\ epoch_num' = epoch_num /\ epoch_num = log[Len(log)].epoch
          /\ start_id' = start_id /\ start_id = log[Len(log)].start
          /\ fs' = fs
  /\ (pc = "search" /\ fs' # fs) => (Len(results) = Len(query_list) /\ pc' = "loop")
  /\ (pc = "search" /\ pc' = "loop") => Len(results) = Len(query_list)
  /\ (pc = "loop" /\ pc' = "idle")
       => api_call.n = call.searches + call.count * Len(query_list)

\* C18: an epoch run makes one API call per entry of the query list, in list
\* order, all with the lower bound of the epoch resolved at its start and
\* without upper bound, and writes its checkpoint only after the last; a
\* run_epochs(count) call ends, and when it returns it has made
\* count * len(query_list) API calls.
C18_OneSearchPerQueryInOrder ==
  /\ [][C18_Step]_vars
  /\ (pc # "idle") ~> (pc = "idle")

\* A run_epochs call of two epochs over two queries has returned after four
\* API calls.
C18_Witness ==
  /\ pc = "idle"
  /\ call.count = 2
  /\ Len(query_list) = 2
  /\ Len(log) = call.first + 1
  /\ log[Len(log)].outcome \in {"some", "none"}
  /\ api_call.n = call.searches + 4

\* C19: whenever no run_epochs call is executing, epoch_mode is false, also
\* after a run_epochs call that an API failure ended.
C19_EpochModeOnlyInRunEpochs == pc = "idle" => epoch_mode = FALSE

\* The ids of a table's rows, in row order.
IdSeq(table) == [i \in 1..Len(table) |-> table[i].id]

\* The ids of the checkpoints written since the last combine_epochs call.
NewIds ==
  UNION {Ids(log[k].rows) :
           k \in {j \in (ret.epochs + 1)..Len(log) : log[j].outcome = "some"}}

\* C20: a combine_epochs call that follows one that returned a table returns
\* the ids of that table plus those of the checkpoints written in between,
\* each once; with none written in between, the same sequence of ids.
C20_CombineIdempotent ==
  [][(ret' # ret /\ ret.kind = "returned")
       => /\ ret'.kind = "returned"
          /\ Ids(ret'.table) = Ids(ret.table) \cup NewIds
          /\ Len(ret'.table) = Cardinality(Ids(ret.table) \cup NewIds)
          /\ NewIds \subseteq Ids(ret.table) => IdSeq(ret'.table) = IdSeq(ret.table)]_vars

\* combine_epochs was called before an epoch run and again after it; the run
\* wrote a checkpoint with a new id, and the second call listed the archive
\* of the first.
C20_Witness ==
  /\ ret.kind = "returned"
  /\ ret.prev = 0
  /\ ret.epochs = 1
  /\ log[1].outcome = "some"
  /\ Pos(ret.csv_files, CombinedPath) > 0
  /\ Len(ret.table) = 2

====
